---- MODULE Spec2Model ----
(***************************************************************************)
(* The persistence schema of app/models.py as a relational store.          *)
(* Every table is a sequence of rows; a row's primary key `id` is its      *)
(* position (ids are assigned 1, 2, ... and no row is ever deleted).       *)
(* A write checks the field constraints the table declares (ValidationError)*)
(* and then the unique and foreign-key constraints (ConstraintViolation).  *)
(* Text fields other than the e-mail address are represented by their      *)
(* length, the only thing max_length looks at; timestamps by whether they  *)
(* are set.                                                                *)
(***************************************************************************)
EXTENDS Integers, Sequences, FiniteSets

VARIABLES users, images, entries, shared, likes, requests, messages, logs, lastOp

vars == <<users, images, entries, shared, likes, requests, messages, logs, lastOp>>

(* ------------------------------ bounds -------------------------------- *)
\* Rows per table in SpecAccounts.
MaxUsers == 2
MaxImages == 2
\* Rows in all the child tables together in Spec.
MaxRows == 4
\* Messages in SpecMessaging.
MaxMessages == 1
\* Rows per table in SpecScenario.
MaxScenarioRows == 1

(* ------------------------- program constants -------------------------- *)
None == 0

USERNAME_MAX == 50
EMAIL_MAX == 255
FULL_NAME_MAX == 100
PASSWORD_MAX == 100
TITLE_MAX == 200
CONTENT_MAX == 5000

ContactRequestStatus == {"pending", "approved", "declined"}
MessageStatus == {"sent", "read", "deleted"}
ModerationStatus == {"pending", "approved", "rejected", "flagged"}

(* ------------------------- the e-mail pattern ------------------------- *)
\* Sample characters of the class [a-zA-Z0-9].
Alnum == {"a", "Z", "9"}
\* [a-zA-Z0-9_.+-]
LocalChars == Alnum \cup {"_", ".", "+", "-"}
\* [a-zA-Z0-9-]
DomainChars == Alnum \cup {"-"}
\* [a-zA-Z0-9-.]
TailChars == Alnum \cup {"-", "."}

\* The automaton of ^[a-zA-Z0-9_.+-]+@[a-zA-Z0-9-]+\.[a-zA-Z0-9-.]+$ :
\* q = 0 before the local part, 1 inside it, 2 after "@", 3 inside the
\* domain label, 4 after the dot, 5 inside the tail (accepting).
RECURSIVE EmailRun(_, _, _)
EmailRun(s, i, q) ==
    IF i > Len(s) THEN q = 5
    ELSE LET c == s[i] IN
         CASE q \in {0, 1} /\ c \in LocalChars -> EmailRun(s, i + 1, 1)
           [] q = 1 /\ c = "@" -> EmailRun(s, i + 1, 2)
           [] q \in {2, 3} /\ c \in DomainChars -> EmailRun(s, i + 1, 3)
           [] q = 3 /\ c = "." -> EmailRun(s, i + 1, 4)
           [] q \in {4, 5} /\ c \in TailChars -> EmailRun(s, i + 1, 5)
           [] OTHER -> FALSE

EmailRegex(s) == EmailRun(s, 1, 0)

(* ------------------------------ inputs -------------------------------- *)
Usernames == {<<"a">>, <<"Z">>, <<"9", "_">>}

Emails ==
    { <<"a", "@", "a", ".", "a">>,
      <<"_", ".", "+", "@", "-", ".", ".", "9">>,
      <<"Z", "-", "9", "@", "9", "a", ".", "Z", "-", "a">>,
      <<"a", "@", "a">>,
      <<"a", "@", "_", ".", "a">>,
      <<"@", "a", ".", "a">>,
      <<"a", "@", "a", ".">>,
      <<"a", "!", "@", "a", ".", "a">> }

PasswordLens == {PASSWORD_MAX, PASSWORD_MAX + 1}
FullNameLens == {FULL_NAME_MAX}
TitleLens == {TITLE_MAX, TITLE_MAX + 1}
ContentLens == {0, CONTENT_MAX, CONTENT_MAX + 1}
Dates == {"2024-01-01", "2024-01-02", "2024-01-03"}

\* The ids a caller may name for a table: every existing one and the next.
Ids(table) == 1..(Len(table) + 1)

Exists(table, id) == id \in DOMAIN table

\* What the caller of the last operation was told: the kind of the outcome and,
\* for an error, the schema, constraint or column it names.
Result(op, result, detail) == [op |-> op, result |-> result, detail |-> detail]

tables == <<users, images, entries, shared, likes, requests, messages, logs>>

\* A write that is refused changes no table.
Refuse(op, result, detail) ==
    /\ lastOp' = Result(op, result, detail)
    /\ UNCHANGED tables

(* ------------------------------- User --------------------------------- *)
UserCreateInputs ==
    [username : Usernames, email : Emails,
     password_len : PasswordLens, full_name_len : FullNameLens]

\* class UserCreate: max_length on every field, no pattern on email.
UserCreateValid(uc) ==
    /\ Len(uc.username) <= USERNAME_MAX
    /\ Len(uc.email) <= EMAIL_MAX
    /\ uc.password_len <= PASSWORD_MAX
    /\ uc.full_name_len <= FULL_NAME_MAX

\* The User row built from a UserCreate (the password hash comes from the
\* hashing service and is not modelled).
UserFromCreate(uc) ==
    [username |-> uc.username, email |-> uc.email,
     full_name_len |-> uc.full_name_len,
     is_active |-> TRUE, is_admin |-> FALSE]

\* class User: the field constraints.
UserValid(u) ==
    /\ Len(u.username) <= USERNAME_MAX
    /\ Len(u.email) <= EMAIL_MAX
    /\ EmailRegex(u.email)
    /\ u.full_name_len <= FULL_NAME_MAX

\* UserUnique with the unique flag of email left out.
UserUnique_UsernameOnly(u) ==
    \A i \in DOMAIN users : users[i].username # u.username

\* class User: username unique=True, email unique=True.
UserUnique(u) ==
    \A i \in DOMAIN users :
        users[i].username # u.username /\ users[i].email # u.email

\* Validate the UserCreate, construct the User, persist it.
CreateUser(uc) ==
    LET u == UserFromCreate(uc) IN
    IF ~UserCreateValid(uc)
    THEN Refuse("CreateUser", "ValidationError", "UserCreate")
    ELSE IF ~UserValid(u)
    THEN Refuse("CreateUser", "ValidationError", "User")
    ELSE IF ~UserUnique(u)
    THEN Refuse("CreateUser", "ConstraintViolation", "unique")
    ELSE /\ users' = Append(users, u)
         /\ lastOp' = Result("CreateUser", "ok", "")
         /\ UNCHANGED <<images, entries, shared, likes, requests, messages, logs>>

(* --------------------------- WikipediaImage --------------------------- *)
\* ImageUnique with the unique flag of image_date left out.
ImageUnique_Off(d) == TRUE

\* class WikipediaImage: image_date unique=True.
ImageUnique(d) == \A i \in DOMAIN images : images[i].image_date # d

CreateWikipediaImage(d) ==
    IF ~ImageUnique(d)
    THEN Refuse("CreateWikipediaImage", "ConstraintViolation", "unique")
    ELSE /\ images' = Append(images, [image_date |-> d])
         /\ lastOp' = Result("CreateWikipediaImage", "ok", "")
         /\ UNCHANGED <<users, entries, shared, likes, requests, messages, logs>>

(* ---------------------------- JournalEntry ---------------------------- *)
JournalEntryCreateInputs ==
    [title_len : TitleLens, content_len : ContentLens, is_shared : BOOLEAN]

\* JournalEntryCreateValid with the limits taken as exclusive.
JournalEntryCreateValid_Exclusive(jc) ==
    /\ jc.title_len < TITLE_MAX
    /\ jc.content_len < CONTENT_MAX

\* class JournalEntryCreate: title max_length=200, content max_length=5000.
JournalEntryCreateValid(jc) ==
    /\ jc.title_len <= TITLE_MAX
    /\ jc.content_len <= CONTENT_MAX

\* Validating the transient schema touches no table.
ValidateJournalEntryCreate(jc) ==
    /\ lastOp' = Result("ValidateJournalEntryCreate",
                        IF JournalEntryCreateValid(jc) THEN "ok" ELSE "ValidationError",
                        IF JournalEntryCreateValid(jc) THEN "" ELSE "JournalEntryCreate")
    /\ UNCHANGED tables

\* class JournalEntry: user_id -> users.id, wikipedia_image_id -> wikipedia_images.id.
JournalEntryFk(e) ==
    /\ Exists(users, e.user_id)
    /\ Exists(images, e.wikipedia_image_id)

CreateJournalEntry(e) ==
    IF ~JournalEntryFk(e)
    THEN Refuse("CreateJournalEntry", "ConstraintViolation", "foreign key")
    ELSE /\ entries' = Append(entries, e)
         /\ lastOp' = Result("CreateJournalEntry", "ok", "")
         /\ UNCHANGED <<users, images, shared, likes, requests, messages, logs>>

\* class JournalEntryUpdate: is_shared written onto an existing row.
UpdateJournalEntry(id, b) ==
    /\ Exists(entries, id)
    /\ entries' = [entries EXCEPT ![id].is_shared = b]
    /\ lastOp' = Result("UpdateJournalEntry", "ok", "")
    /\ UNCHANGED <<users, images, shared, likes, requests, messages, logs>>

(* ----------------------------- SharedEntry ---------------------------- *)
\* The defaults of class SharedEntry.
NewSharedEntry(jid) ==
    [journal_entry_id |-> jid, moderation_status |-> "pending",
     moderated_by |-> None, view_count |-> 0, like_count |-> 0]

\* journal_entry_id -> journal_entries.id
SharedEntryFk(jid) == Exists(entries, jid)

\* SharedEntryUnique with the unique flag of journal_entry_id left out.
SharedEntryUnique_Off(jid) == TRUE

\* journal_entry_id unique=True
SharedEntryUnique(jid) ==
    \A i \in DOMAIN shared : shared[i].journal_entry_id # jid

\* CreateSharedEntry checking the foreign key only.
CreateSharedEntry_FkOnly(jid) ==
    IF ~SharedEntryFk(jid)
    THEN Refuse("CreateSharedEntry", "ConstraintViolation", "foreign key")
    ELSE /\ shared' = Append(shared, NewSharedEntry(jid))
         /\ lastOp' = Result("CreateSharedEntry", "ok", "")
         /\ UNCHANGED <<users, images, entries, likes, requests, messages, logs>>

CreateSharedEntry(jid) ==
    IF ~SharedEntryFk(jid)
    THEN Refuse("CreateSharedEntry", "ConstraintViolation", "foreign key")
    ELSE IF ~SharedEntryUnique(jid)
    THEN Refuse("CreateSharedEntry", "ConstraintViolation", "unique")
    ELSE /\ shared' = Append(shared, NewSharedEntry(jid))
         /\ lastOp' = Result("CreateSharedEntry", "ok", "")
         /\ UNCHANGED <<users, images, entries, likes, requests, messages, logs>>

\* class ModerationAction applied to a row: moderated_by -> users.id.
ModerateSharedEntry(id, status, moderator) ==
    /\ Exists(shared, id)
    /\ IF ~Exists(users, moderator)
       THEN Refuse("ModerateSharedEntry", "ConstraintViolation", "foreign key")
       ELSE /\ shared' = [shared EXCEPT ![id].moderation_status = status,
                                        ![id].moderated_by = moderator]
            /\ lastOp' = Result("ModerateSharedEntry", "ok", "")
            /\ UNCHANGED <<users, images, entries, likes, requests, messages, logs>>

(* ------------------------------ EntryLike ----------------------------- *)
\* class EntryLike: user_id -> users.id, shared_entry_id -> shared_entries.id;
\* no unique constraint.
EntryLikeFk(l) ==
    /\ Exists(users, l.user_id)
    /\ Exists(shared, l.shared_entry_id)

\* CreateEntryLike with a unique constraint on (user_id, shared_entry_id).
CreateEntryLike_UniquePair(l) ==
    IF ~EntryLikeFk(l)
    THEN Refuse("CreateEntryLike", "ConstraintViolation", "foreign key")
    ELSE IF \E i \in DOMAIN likes : likes[i] = l
    THEN Refuse("CreateEntryLike", "ConstraintViolation", "unique")
    ELSE /\ likes' = Append(likes, l)
         /\ lastOp' = Result("CreateEntryLike", "ok", "")
         /\ UNCHANGED <<users, images, entries, shared, requests, messages, logs>>

CreateEntryLike(l) ==
    IF ~EntryLikeFk(l)
    THEN Refuse("CreateEntryLike", "ConstraintViolation", "foreign key")
    ELSE /\ likes' = Append(likes, l)
         /\ lastOp' = Result("CreateEntryLike", "ok", "")
         /\ UNCHANGED <<users, images, entries, shared, requests, messages, logs>>

(* ---------------------------- ContactRequest -------------------------- *)
\* NewContactRequest with the default of status set to APPROVED.
NewContactRequest_Approved(c) ==
    [requester_id |-> c.requester_id, requested_id |-> c.requested_id,
     shared_entry_id |-> c.shared_entry_id,
     status |-> "approved", responded_at |-> None]

\* The defaults of class ContactRequest.
NewContactRequest(c) ==
    [requester_id |-> c.requester_id, requested_id |-> c.requested_id,
     shared_entry_id |-> c.shared_entry_id,
     status |-> "pending", responded_at |-> None]

\* ContactRequestFk with the foreign key of requested_id left out.
ContactRequestFk_NoRequested(c) ==
    /\ Exists(users, c.requester_id)
    /\ Exists(shared, c.shared_entry_id)

\* requester_id, requested_id -> users.id, shared_entry_id -> shared_entries.id
ContactRequestFk(c) ==
    /\ Exists(users, c.requester_id)
    /\ Exists(users, c.requested_id)
    /\ Exists(shared, c.shared_entry_id)

CreateContactRequest(c) ==
    IF ~ContactRequestFk(c)
    THEN Refuse("CreateContactRequest", "ConstraintViolation", "foreign key")
    ELSE /\ requests' = Append(requests, NewContactRequest(c))
         /\ lastOp' = Result("CreateContactRequest", "ok", "")
         /\ UNCHANGED <<users, images, entries, shared, likes, messages, logs>>

\* class ContactRequestResponse applied to a row.
RespondContactRequest(id, status) ==
    /\ Exists(requests, id)
    /\ requests' = [requests EXCEPT ![id].status = status, ![id].responded_at = 1]
    /\ lastOp' = Result("RespondContactRequest", "ok", "")
    /\ UNCHANGED <<users, images, entries, shared, likes, messages, logs>>

(* ------------------------------- Message ------------------------------ *)
\* The defaults of class Message.
NewMessage(m) ==
    [sender_id |-> m.sender_id, recipient_id |-> m.recipient_id,
     contact_request_id |-> m.contact_request_id,
     status |-> "sent", read_at |-> None,
     deleted_by_sender |-> FALSE, deleted_by_recipient |-> FALSE]

\* sender_id, recipient_id -> users.id, contact_request_id -> contact_requests.id
MessageFk(m) ==
    /\ Exists(users, m.sender_id)
    /\ Exists(users, m.recipient_id)
    /\ Exists(requests, m.contact_request_id)

CreateMessage(m) ==
    IF ~MessageFk(m)
    THEN Refuse("CreateMessage", "ConstraintViolation", "foreign key")
    ELSE /\ messages' = Append(messages, NewMessage(m))
         /\ lastOp' = Result("CreateMessage", "ok", "")
         /\ UNCHANGED <<users, images, entries, shared, likes, requests, logs>>

\* Message.status and Message.read_at written onto an existing row.
UpdateMessageStatus(id, status, read_at) ==
    /\ Exists(messages, id)
    /\ messages' = [messages EXCEPT ![id].status = status, ![id].read_at = read_at]
    /\ lastOp' = Result("UpdateMessageStatus", "ok", "")
    /\ UNCHANGED <<users, images, entries, shared, likes, requests, logs>>

\* SetDeletedBySender that also moves the shared status to "deleted".
SetDeletedBySender_AlsoStatus(id, b) ==
    /\ Exists(messages, id)
    /\ messages' = [messages EXCEPT ![id].deleted_by_sender = b,
                                    ![id].status = IF b THEN "deleted" ELSE @]
    /\ lastOp' = Result("SetDeletedBySender", "ok", "")
    /\ UNCHANGED <<users, images, entries, shared, likes, requests, logs>>

\* Message.deleted_by_sender written onto an existing row.
SetDeletedBySender(id, b) ==
    /\ Exists(messages, id)
    /\ messages' = [messages EXCEPT ![id].deleted_by_sender = b]
    /\ lastOp' = Result("SetDeletedBySender", "ok", "")
    /\ UNCHANGED <<users, images, entries, shared, likes, requests, logs>>

\* Message.deleted_by_recipient written onto an existing row.
SetDeletedByRecipient(id, b) ==
    /\ Exists(messages, id)
    /\ messages' = [messages EXCEPT ![id].deleted_by_recipient = b]
    /\ lastOp' = Result("SetDeletedByRecipient", "ok", "")
    /\ UNCHANGED <<users, images, entries, shared, likes, requests, logs>>

(* ------------------------------- AdminLog ----------------------------- *)
\* class AdminLog: admin_user_id -> users.id.
AdminLogFk(a) == Exists(users, a)

CreateAdminLog(a) ==
    IF ~AdminLogFk(a)
    THEN Refuse("CreateAdminLog", "ConstraintViolation", "foreign key")
    ELSE /\ logs' = Append(logs, [admin_user_id |-> a])
         /\ lastOp' = Result("CreateAdminLog", "ok", "")
         /\ UNCHANGED <<users, images, entries, shared, likes, requests, messages>>

(* --------------------------- specifications --------------------------- *)
NoOp == Result("none", "ok", "")

\* The empty store.
Init ==
    /\ users = <<>> /\ images = <<>> /\ entries = <<>> /\ shared = <<>>
    /\ likes = <<>> /\ requests = <<>> /\ messages = <<>> /\ logs = <<>>
    /\ lastOp = NoOp

\* The registrations, the date and the rows of the end-to-end example.
RegistrationA ==
    [username |-> <<"a">>, email |-> <<"a", "@", "a", ".", "a">>,
     password_len |-> PASSWORD_MAX, full_name_len |-> FULL_NAME_MAX]
RegistrationB ==
    [username |-> <<"Z">>, email |-> <<"_", ".", "+", "@", "-", ".", ".", "9">>,
     password_len |-> PASSWORD_MAX, full_name_len |-> FULL_NAME_MAX]
UserA == UserFromCreate(RegistrationA)
UserB == UserFromCreate(RegistrationB)
Image1 == [image_date |-> "2024-01-01"]
Entry1 == [user_id |-> 1, wikipedia_image_id |-> 1, is_shared |-> TRUE]
Like1 == [user_id |-> 2, shared_entry_id |-> 1]
Contact1 == [requester_id |-> 2, requested_id |-> 1, shared_entry_id |-> 1]
Message1 == [sender_id |-> 2, recipient_id |-> 1, contact_request_id |-> 1]
Request1 ==
    [NewContactRequest(Contact1) EXCEPT !.status = "approved", !.responded_at = 1]

\* SpecAccounts: users and images from the empty store.
AccountsCap == Len(users) <= MaxUsers /\ Len(images) <= MaxImages

NextAccounts ==
    \/ \E uc \in UserCreateInputs : CreateUser(uc) /\ AccountsCap'
    \/ \E d \in Dates : CreateWikipediaImage(d) /\ AccountsCap'

SpecAccounts == Init /\ [][NextAccounts]_vars

\* Spec: the child tables over a store that holds one user and one image.
\* A caller names ids 1..n+1 of a table of n rows, so every foreign key is
\* tried on an existing and on a missing row.
InitStore ==
    /\ users = <<UserA>> /\ images = <<Image1>>
    /\ entries = <<>> /\ shared = <<>> /\ likes = <<>>
    /\ requests = <<>> /\ messages = <<>> /\ logs = <<>>
    /\ lastOp = NoOp

StoreCap ==
    Len(entries) + Len(shared) + Len(likes)
        + Len(requests) + Len(messages) + Len(logs) <= MaxRows

Next ==
    \/ \E jc \in JournalEntryCreateInputs : ValidateJournalEntryCreate(jc)
    \/ \E u \in Ids(users), w \in Ids(images), b \in BOOLEAN :
          CreateJournalEntry([user_id |-> u, wikipedia_image_id |-> w, is_shared |-> b])
          /\ StoreCap'
    \/ \E id \in Ids(entries), b \in BOOLEAN : UpdateJournalEntry(id, b)
    \/ \E jid \in Ids(entries) : CreateSharedEntry(jid) /\ StoreCap'
    \/ \E id \in Ids(shared), s \in ModerationStatus, u \in Ids(users) :
          ModerateSharedEntry(id, s, u)
    \/ \E u \in Ids(users), s \in Ids(shared) :
          CreateEntryLike([user_id |-> u, shared_entry_id |-> s]) /\ StoreCap'
    \/ \E a \in Ids(users), b \in Ids(users), s \in Ids(shared) :
          CreateContactRequest([requester_id |-> a, requested_id |-> b, shared_entry_id |-> s])
          /\ StoreCap'
    \/ \E id \in Ids(requests), s \in ContactRequestStatus : RespondContactRequest(id, s)
    \/ \E a \in Ids(users), b \in Ids(users), c \in Ids(requests) :
          CreateMessage([sender_id |-> a, recipient_id |-> b, contact_request_id |-> c])
          /\ StoreCap'
    \/ \E a \in Ids(users) : CreateAdminLog(a) /\ StoreCap'

Spec == InitStore /\ [][Next]_vars

\* SpecMessaging: messages over a store that holds an approved contact request.
InitMessaging ==
    /\ users = <<UserA, UserB>> /\ images = <<Image1>>
    /\ entries = <<Entry1>> /\ shared = <<NewSharedEntry(1)>>
    /\ likes = <<>> /\ requests = <<Request1>>
    /\ messages = <<>> /\ logs = <<>>
    /\ lastOp = NoOp

MessagingCap == Len(messages) <= MaxMessages

NextMessaging ==
    \/ \E a \in Ids(users), b \in Ids(users), c \in Ids(requests) :
          CreateMessage([sender_id |-> a, recipient_id |-> b, contact_request_id |-> c])
          /\ MessagingCap'
    \/ \E id \in Ids(messages), s \in MessageStatus, r \in {None, 1} :
          UpdateMessageStatus(id, s, r)
    \/ \E id \in Ids(messages), b \in BOOLEAN : SetDeletedBySender(id, b)
    \/ \E id \in Ids(messages), b \in BOOLEAN : SetDeletedByRecipient(id, b)

SpecMessaging == InitMessaging /\ [][NextMessaging]_vars

\* SpecScenario: the calls of the end-to-end example from the empty store,
\* issued in any order and any number of times.
ScenarioCap ==
    /\ Len(entries) <= MaxScenarioRows /\ Len(shared) <= MaxScenarioRows
    /\ Len(likes) <= MaxScenarioRows /\ Len(requests) <= MaxScenarioRows
    /\ Len(messages) <= MaxScenarioRows

NextScenario ==
    \/ \E uc \in {RegistrationA, RegistrationB} : CreateUser(uc)
    \/ CreateWikipediaImage(Image1.image_date)
    \/ CreateJournalEntry(Entry1) /\ ScenarioCap'
    \/ CreateSharedEntry(1) /\ ScenarioCap'
    \/ CreateEntryLike(Like1) /\ ScenarioCap'
    \/ CreateContactRequest(Contact1) /\ ScenarioCap'
    \/ \E s \in ContactRequestStatus : RespondContactRequest(1, s)
    \/ CreateMessage(Message1) /\ ScenarioCap'

SpecScenario == Init /\ [][NextScenario]_vars

(* ------------------------------ properties ---------------------------- *)
\* The rows of `table` whose column `col` holds `v`.
Refs(table, col, v) == {i \in DOMAIN table : table[i][col] = v}

\* C1: creating a User whose username or email is already taken is refused
\* and leaves the users table as it was (with ConstraintViolation when the
\* input passes field validation, which runs first); so no two persisted
\* Users share a username and no two share an email.
C1_UsernameAndEmailUnique ==
    /\ [](\A i, j \in DOMAIN users :
            i # j => /\ users[i].username # users[j].username
                     /\ users[i].email # users[j].email)
    /\ [][\A uc \in UserCreateInputs :
            ( /\ \E i \in DOMAIN users :
                    users[i].username = uc.username \/ users[i].email = uc.email
              /\ CreateUser(uc) )
            => /\ users' = users
               /\ lastOp'.result # "ok"
               /\ (UserCreateValid(uc) /\ UserValid(UserFromCreate(uc))
                     => lastOp'.result = "ConstraintViolation")]_vars

\* A second registration was refused for a taken username or email.
C1_Witness ==
    /\ lastOp = Result("CreateUser", "ConstraintViolation", "unique")
    /\ Len(users) >= 1

\* C2: every input UserCreate accepts can be turned into a User and
\* persisted, and the stored email matches the pattern; no persisted User has
\* a non-matching email.  (A registration that collides with a stored
\* username or email is left aside: C1 covers it.)
C2_AcceptedUserCreatePersists ==
    /\ [](\A i \in DOMAIN users : EmailRegex(users[i].email))
    /\ [][\A uc \in UserCreateInputs :
            ( /\ UserCreateValid(uc)
              /\ \A i \in DOMAIN users :
                    users[i].username # uc.username /\ users[i].email # uc.email
              /\ CreateUser(uc) )
            => /\ lastOp'.result = "ok"
               /\ users' = Append(users, UserFromCreate(uc))
               /\ EmailRegex(users'[Len(users')].email)]_vars

\* C3: creating a SharedEntry for a journal entry that already has one fails
\* with ConstraintViolation and leaves shared_entries as it was; so every
\* journal_entry_id occurs in at most one SharedEntry.
C3_OneSharedEntryPerJournalEntry ==
    /\ [](\A i, j \in DOMAIN shared :
            i # j => shared[i].journal_entry_id # shared[j].journal_entry_id)
    /\ [][lastOp'.op = "CreateSharedEntry" =>
          \A jid \in Ids(entries) :
            ( /\ \E i \in DOMAIN shared : shared[i].journal_entry_id = jid
              /\ CreateSharedEntry(jid) )
            => /\ lastOp'.result = "ConstraintViolation"
               /\ shared' = shared]_vars

\* A second SharedEntry for the same journal entry was refused.
C3_Witness ==
    /\ lastOp = Result("CreateSharedEntry", "ConstraintViolation", "unique")
    /\ Len(shared) >= 1

\* C4 as claimed: a JournalEntry has exactly one SharedEntry when is_shared
\* is true and none when it is false.
C4_ExactlyOneIffShared ==
    \A e \in DOMAIN entries :
        Cardinality(Refs(shared, "journal_entry_id", e))
            = IF entries[e].is_shared THEN 1 ELSE 0

\* C4 as amended: a JournalEntry, whatever its is_shared flag, has at most
\* one SharedEntry; the flag and the SharedEntry row are written separately.
C4_AtMostOneSharedEntry ==
    \A e \in DOMAIN entries :
        Cardinality(Refs(shared, "journal_entry_id", e)) <= 1

\* Both gaps at once: a shared entry without a SharedEntry and an unshared
\* entry with one.
C4_Witness ==
    \E e, f \in DOMAIN entries :
        /\ entries[e].is_shared /\ Refs(shared, "journal_entry_id", e) = {}
        /\ ~entries[f].is_shared /\ Refs(shared, "journal_entry_id", f) # {}

\* C5: creating a WikipediaImage for a date that already has one fails with
\* ConstraintViolation and leaves the images as they were; so there is at
\* most one image per date.
C5_OneImagePerDate ==
    /\ [](\A d \in Dates : Cardinality(Refs(images, "image_date", d)) <= 1)
    /\ [][\A d \in Dates :
            (Refs(images, "image_date", d) # {} /\ CreateWikipediaImage(d))
            => /\ lastOp'.result = "ConstraintViolation"
               /\ images' = images]_vars

\* A second image for a stored date was refused while another date got its own.
C5_Witness ==
    /\ lastOp = Result("CreateWikipediaImage", "ConstraintViolation", "unique")
    /\ Len(images) = 2

\* Every non-null foreign key of every row names an existing row.
ForeignKeysResolve ==
    /\ \A i \in DOMAIN entries :
          Exists(users, entries[i].user_id) /\ Exists(images, entries[i].wikipedia_image_id)
    /\ \A i \in DOMAIN shared :
          /\ Exists(entries, shared[i].journal_entry_id)
          /\ shared[i].moderated_by # None => Exists(users, shared[i].moderated_by)
    /\ \A i \in DOMAIN likes :
          Exists(users, likes[i].user_id) /\ Exists(shared, likes[i].shared_entry_id)
    /\ \A i \in DOMAIN requests :
          /\ Exists(users, requests[i].requester_id)
          /\ Exists(users, requests[i].requested_id)
          /\ Exists(shared, requests[i].shared_entry_id)
    /\ \A i \in DOMAIN messages :
          /\ Exists(users, messages[i].sender_id)
          /\ Exists(users, messages[i].recipient_id)
          /\ Exists(requests, messages[i].contact_request_id)
    /\ \A i \in DOMAIN logs : Exists(users, logs[i].admin_user_id)

\* The outcome of a write that names a missing row.
RefusedForeignKey ==
    lastOp'.result = "ConstraintViolation" /\ tables' = tables

\* C6: a create of any of the six child types that names a missing row fails
\* with ConstraintViolation and changes nothing, and so does a moderation
\* that names a missing moderator; every non-null foreign key resolves.
C6_ReferentialIntegrity ==
    /\ []ForeignKeysResolve
    /\ [][ /\ lastOp'.op = "CreateJournalEntry" =>
                \A u \in Ids(users), w \in Ids(images), b \in BOOLEAN :
                   ( /\ (u \notin DOMAIN users \/ w \notin DOMAIN images)
                     /\ CreateJournalEntry([user_id |-> u, wikipedia_image_id |-> w,
                                            is_shared |-> b]) )
                   => RefusedForeignKey
           /\ lastOp'.op = "CreateSharedEntry" =>
                \A jid \in Ids(entries) :
                   (jid \notin DOMAIN entries /\ CreateSharedEntry(jid))
                   => RefusedForeignKey
           /\ lastOp'.op = "ModerateSharedEntry" =>
                \A id \in Ids(shared), s \in ModerationStatus, u \in Ids(users) :
                   (u \notin DOMAIN users /\ ModerateSharedEntry(id, s, u))
                   => RefusedForeignKey
           /\ lastOp'.op = "CreateEntryLike" =>
                \A u \in Ids(users), s \in Ids(shared) :
                   ( /\ (u \notin DOMAIN users \/ s \notin DOMAIN shared)
                     /\ CreateEntryLike([user_id |-> u, shared_entry_id |-> s]) )
                   => RefusedForeignKey
           /\ lastOp'.op = "CreateContactRequest" =>
                \A a \in Ids(users), b \in Ids(users), s \in Ids(shared) :
                   ( /\ (a \notin DOMAIN users \/ b \notin DOMAIN users
                           \/ s \notin DOMAIN shared)
                     /\ CreateContactRequest([requester_id |-> a, requested_id |-> b,
                                              shared_entry_id |-> s]) )
                   => RefusedForeignKey
           /\ lastOp'.op = "CreateMessage" =>
                \A a \in Ids(users), b \in Ids(users), c \in Ids(requests) :
                   ( /\ (a \notin DOMAIN users \/ b \notin DOMAIN users
                           \/ c \notin DOMAIN requests)
                     /\ CreateMessage([sender_id |-> a, recipient_id |-> b,
                                       contact_request_id |-> c]) )
                   => RefusedForeignKey
           /\ lastOp'.op = "CreateAdminLog" =>
                \A a \in Ids(users) :
                   (a \notin DOMAIN users /\ CreateAdminLog(a)) => RefusedForeignKey
         ]_vars

\* A message naming a missing row was refused in a store that holds a
\* journal entry, its shared entry and a contact request.
C6_Witness ==
    /\ lastOp = Result("CreateMessage", "ConstraintViolation", "foreign key")
    /\ Len(entries) >= 1 /\ Len(shared) >= 1 /\ Len(requests) >= 1

\* One side's deletion flag written on message id: the rest of the row stays.
OnlyFlagChanges(id, flag) ==
    /\ messages'[id].status = messages[id].status
    /\ messages'[id].read_at = messages[id].read_at
    /\ messages'[id][flag] = messages[id][flag]

\* C7: a Message is created sent, unread and undeleted; writing status and
\* read_at leaves both deletion flags alone; writing one side's deletion flag
\* leaves the other side's flag, status and read_at alone.
C7_DeletionFlagsIndependent ==
    [][ /\ \A id \in Ids(messages), b \in BOOLEAN :
             SetDeletedBySender(id, b) => OnlyFlagChanges(id, "deleted_by_recipient")
        /\ \A id \in Ids(messages), b \in BOOLEAN :
             SetDeletedByRecipient(id, b) => OnlyFlagChanges(id, "deleted_by_sender")
        /\ \A id \in Ids(messages), s \in MessageStatus, r \in {None, 1} :
             UpdateMessageStatus(id, s, r)
             => /\ messages'[id].deleted_by_sender = messages[id].deleted_by_sender
                /\ messages'[id].deleted_by_recipient = messages[id].deleted_by_recipient
        /\ (lastOp' = Result("CreateMessage", "ok", "") /\ messages' # messages)
             => LET m == messages'[Len(messages')] IN
                /\ m.status = "sent" /\ m.read_at = None
                /\ ~m.deleted_by_sender /\ ~m.deleted_by_recipient
      ]_vars

\* The message was read and then deleted by its sender only.
C7_Witness ==
    /\ lastOp = Result("SetDeletedBySender", "ok", "")
    /\ \E i \in DOMAIN messages :
          /\ messages[i].status = "read" /\ messages[i].read_at # None
          /\ messages[i].deleted_by_sender /\ ~messages[i].deleted_by_recipient

\* C8: each call of the end-to-end example is accepted once the rows it names
\* are there (and, for the approval and the message, accepted with the request
\* approved); the SharedEntry starts pending, the ContactRequest pending, the
\* Message sent.
C8_EndToEndAccepted ==
    [][ /\ \A uc \in {RegistrationA, RegistrationB} :
             (CreateUser(uc) /\ \A i \in DOMAIN users :
                  users[i].username # uc.username /\ users[i].email # uc.email)
             => lastOp'.result = "ok" /\ Len(users') = Len(users) + 1
        /\ (CreateWikipediaImage(Image1.image_date) /\ images = <<>>)
             => lastOp'.result = "ok" /\ images' = <<Image1>>
        /\ (CreateJournalEntry(Entry1) /\ Len(users) >= 1 /\ Len(images) >= 1)
             => lastOp'.result = "ok" /\ entries' = Append(entries, Entry1)
        /\ (CreateSharedEntry(1) /\ Len(entries) >= 1 /\ shared = <<>>)
             => /\ lastOp'.result = "ok"
                /\ Len(shared') = 1
                /\ shared'[1].journal_entry_id = 1
                /\ shared'[1].moderation_status = "pending"
        /\ (CreateEntryLike(Like1) /\ Len(users) >= 2 /\ Len(shared) >= 1)
             => lastOp'.result = "ok" /\ likes' = Append(likes, Like1)
        /\ (CreateContactRequest(Contact1) /\ Len(users) >= 2 /\ Len(shared) >= 1)
             => /\ lastOp'.result = "ok"
                /\ Len(requests') = Len(requests) + 1
                /\ requests'[Len(requests')].status = "pending"
        /\ (RespondContactRequest(1, "approved") /\ Len(requests) >= 1)
             => lastOp'.result = "ok" /\ requests'[1].status = "approved"
        /\ ( /\ CreateMessage(Message1)
             /\ Len(users) >= 2 /\ Len(requests) >= 1
             /\ requests[1].status = "approved" )
             => /\ lastOp'.result = "ok"
                /\ Len(messages') = Len(messages) + 1
                /\ messages'[Len(messages')].status = "sent"
                /\ messages'[Len(messages')].contact_request_id = 1
      ]_vars

\* The example has run to its end: B's message on the approved request.
C8_Witness ==
    /\ lastOp = Result("CreateMessage", "ok", "")
    /\ Len(users) = 2 /\ images = <<Image1>> /\ entries = <<Entry1>>
    /\ shared = <<NewSharedEntry(1)>> /\ likes = <<Like1>>
    /\ requests = <<Request1>>
    /\ messages = <<NewMessage(Message1)>>

\* C9: a JournalEntryCreate with more than 5000 characters of content fails
\* validation with a ValidationError and writes no row; one with at most 5000
\* characters of content and at most 200 of title is accepted.
C9_JournalEntryCreateLimits ==
    [][lastOp'.op = "ValidateJournalEntryCreate" =>
       \A jc \in JournalEntryCreateInputs :
          ValidateJournalEntryCreate(jc)
          => /\ tables' = tables
             /\ jc.content_len > 5000 => lastOp'.result = "ValidationError"
             /\ (jc.content_len <= 5000 /\ jc.title_len <= 200)
                  => lastOp'.result = "ok"]_vars

\* An over-long JournalEntryCreate was refused.
C9_Witness ==
    lastOp = Result("ValidateJournalEntryCreate", "ValidationError", "JournalEntryCreate")

\* C10: an EntryLike whose user and shared entry exist is always stored, also
\* when a like of the same user on the same shared entry is already there.
C10_DuplicateLikeAccepted ==
    [][lastOp'.op = "CreateEntryLike" =>
       \A u \in Ids(users), s \in Ids(shared) :
          LET l == [user_id |-> u, shared_entry_id |-> s] IN
          (u \in DOMAIN users /\ s \in DOMAIN shared /\ CreateEntryLike(l))
          => lastOp'.result = "ok" /\ likes' = Append(likes, l)]_vars

\* Two likes of one user on one shared entry are stored.
C10_Witness ==
    /\ lastOp = Result("CreateEntryLike", "ok", "")
    /\ \E i, j \in DOMAIN likes : i # j /\ likes[i] = likes[j]

====
